---- MODULE Spec2Model ----
(***************************************************************************)
(* Model of mapper_app.py: the Streamlit script that turns an uploaded     *)
(* bank statement (DATE, NARRITION, DEBIT, CREDIT) into Tally-style        *)
(* voucher rows.  Every user interaction reruns main() from the top, so    *)
(* each action below is one rerun of the script with the widget state the  *)
(* interaction leaves behind.                                              *)
(*                                                                         *)
(* Text is modelled as a sequence of one-character strings so that         *)
(* str.strip, str.upper, str.split and the token-set similarity scorer     *)
(* are computed character by character.                                    *)
(***************************************************************************)
EXTENDS Integers, Sequences, FiniteSets

VARIABLES
    run,            \* how far the last rerun of main() got
    df,             \* the uploaded statement: sequence of rows
    user_inp,       \* text typed into the "Replace ... ->" inputs, by key
    ledger_list,    \* ledger names loaded from the ledger master
    fuzzy_thresh,   \* slider value
    give_bank_name, \* bank name text input
    step1,          \* MAPPED_LEDGER column after the override step
    working,        \* MAPPED_LEDGER column at the end of the mapping pass
    out_rows        \* rows of out_df

vars == <<run, df, user_inp, ledger_list, fuzzy_thresh, give_bank_name,
          step1, working, out_rows>>

(***************************************************************************)
(* Bounds and input pools                                                  *)
(***************************************************************************)
MaxRows == 3

SliderMin == 50
SliderMax == 100
SliderDefault == 80
SMALL_CHARGE_THRESHOLD == 58

ThreshVals == {SliderMin, 67, SliderDefault}

\* a parsed calendar date <<year, month, day>>, or <<>> for a cell that
\* pd.to_datetime(errors='coerce') turns into NaT
GoodDate == <<2024, 1, 5>>
BadDate == <<>>

N_AB == <<"A", " ", "B">>
N_ab == <<"a", " ", "b">>
N_padAB == <<" ", "A", " ", "B">>
N_C == <<"C">>
N_blank == <<" ">>

RowPool ==
    { [DATE |-> GoodDate, NARRITION |-> N_AB,    DEBIT |-> 59,  CREDIT |-> 0],
      [DATE |-> GoodDate, NARRITION |-> N_ab,    DEBIT |-> 100, CREDIT |-> 59],
      [DATE |-> BadDate,  NARRITION |-> N_padAB, DEBIT |-> 100, CREDIT |-> 0],
      [DATE |-> GoodDate, NARRITION |-> N_AB,    DEBIT |-> 58,  CREDIT |-> 0],
      [DATE |-> GoodDate, NARRITION |-> N_C,     DEBIT |-> 0,   CREDIT |-> 100],
      [DATE |-> BadDate,  NARRITION |-> N_C,     DEBIT |-> 59,  CREDIT |-> 100],
      [DATE |-> BadDate,  NARRITION |-> N_blank, DEBIT |-> 0,   CREDIT |-> 0] }

RECURSIVE SeqsUpTo(_, _)
SeqsUpTo(S, n) ==
    IF n = 0 THEN {<<>>}
    ELSE LET shorter == SeqsUpTo(S, n - 1)
         IN  shorter \cup {Append(s, x) : s \in shorter, x \in S}

Batches == SeqsUpTo(RowPool, MaxRows)

\* first column of the ledger master file, as read
LedgerFiles ==
    { <<<<" ", "A", " ", "C">>, <<" ">>, <<"C">>, <<"a", " ", "b", " ">>>> }

ReplacementTexts == {<<>>, <<" ", "L">>}
BankNameTexts == {<<>>, <<" ">>, <<" ", "H", " ">>}

BANK_CHARGES == <<"B","A","N","K"," ","C","H","A","R","G","E","S">>
SUSPENSE == <<"S","U","S","P","E","N","S","E">>

(***************************************************************************)
(* str methods                                                             *)
(***************************************************************************)
CodeOrder ==
    <<" ", "A","B","C","D","E","F","G","H","I","J","K","L","M",
      "N","O","P","Q","R","S","T","U","V","W","X","Y","Z",
      "a","b","c","d","e","f","g","h","i","j","k","l","m",
      "n","o","p","q","r","s","t","u","v","w","x","y","z">>

OrdTable ==
    [c \in {CodeOrder[i] : i \in 1..Len(CodeOrder)} |->
        CHOOSE i \in 1..Len(CodeOrder) : CodeOrder[i] = c]

\* ord(c), as the rank of c among the characters in use
Ord(c) == OrdTable[c]

IsSpace(c) == c = " "

upper_char(c) == IF Ord(c) >= 28 THEN CodeOrder[Ord(c) - 26] ELSE c

str_upper(s) == [i \in 1..Len(s) |-> upper_char(s[i])]

RECURSIVE lstrip(_)
lstrip(s) == IF s # <<>> /\ IsSpace(Head(s)) THEN lstrip(Tail(s)) ELSE s

RECURSIVE rstrip(_)
rstrip(s) ==
    IF s # <<>> /\ IsSpace(s[Len(s)]) THEN rstrip(SubSeq(s, 1, Len(s) - 1))
    ELSE s

str_strip(s) == rstrip(lstrip(s))

\* s.split(): the whitespace-separated tokens of s, in order
RECURSIVE split_from(_, _, _)
split_from(s, cur, acc) ==
    IF s = <<>> THEN (IF cur = <<>> THEN acc ELSE Append(acc, cur))
    ELSE IF IsSpace(Head(s))
         THEN split_from(Tail(s), <<>>,
                         IF cur = <<>> THEN acc ELSE Append(acc, cur))
         ELSE split_from(Tail(s), Append(cur, Head(s)), acc)

str_split(s) == split_from(s, <<>>, <<>>)

Range(f) == {f[i] : i \in DOMAIN f}

(***************************************************************************)
(* rapidfuzz: fuzz.token_set_ratio and process.extractOne                  *)
(***************************************************************************)
Max2(a, b) == IF a >= b THEN a ELSE b

\* Python's ordering of str: code point by code point, a prefix sorts first
RECURSIVE str_less(_, _)
str_less(a, b) ==
    IF b = <<>> THEN FALSE
    ELSE IF a = <<>> THEN TRUE
    ELSE IF Head(a) = Head(b) THEN str_less(Tail(a), Tail(b))
    ELSE Ord(Head(a)) < Ord(Head(b))

\* sorted(tokens)
RECURSIVE sorted(_)
sorted(S) ==
    IF S = {} THEN <<>>
    ELSE LET least == CHOOSE t \in S : \A u \in S \ {t} : str_less(t, u)
         IN  <<least>> \o sorted(S \ {least})

\* " ".join(tokens)
RECURSIVE join(_)
join(toks) ==
    IF toks = <<>> THEN <<>>
    ELSE IF Len(toks) = 1 THEN toks[1]
    ELSE toks[1] \o <<" ">> \o join(Tail(toks))

\* length of the longest common subsequence
RECURSIVE lcs_len(_, _)
lcs_len(a, b) ==
    IF a = <<>> \/ b = <<>> THEN 0
    ELSE IF Head(a) = Head(b) THEN 1 + lcs_len(Tail(a), Tail(b))
    ELSE Max2(lcs_len(Tail(a), b), lcs_len(a, Tail(b)))

indel_distance(a, b) == Len(a) + Len(b) - 2 * lcs_len(a, b)

\* A score is the rational num/den in [0, 100], kept exact.
ScoreOf(n, d) == [num |-> n, den |-> d]
score_lt(x, y) == x.num * y.den < y.num * x.den
score_max(x, y) == IF score_lt(x, y) THEN y ELSE x
\* score >= t for an integer t
score_ge(x, t) == x.num >= t * x.den

\* 100 - 100 * dist / lensum, and 100 when lensum is 0
norm_distance(dist, lensum) ==
    IF lensum > 0 THEN ScoreOf(100 * (lensum - dist), lensum)
    ELSE ScoreOf(100, 1)

token_set_ratio(s1, s2) ==
    LET tokens_a == Range(str_split(s1))
        tokens_b == Range(str_split(s2))
        intersect == tokens_a \cap tokens_b
        diff_ab == tokens_a \ tokens_b
        diff_ba == tokens_b \ tokens_a
        diff_ab_joined == join(sorted(diff_ab))
        diff_ba_joined == join(sorted(diff_ba))
        ab_len == Len(diff_ab_joined)
        ba_len == Len(diff_ba_joined)
        sect_len == Len(join(sorted(intersect)))
        sep == IF sect_len # 0 THEN 1 ELSE 0
        sect_ab_len == sect_len + sep + ab_len
        sect_ba_len == sect_len + sep + ba_len
        result == norm_distance(indel_distance(diff_ab_joined, diff_ba_joined),
                                sect_ab_len + sect_ba_len)
        sect_ab_ratio == norm_distance(sep + ab_len, sect_len + sect_ab_len)
        sect_ba_ratio == norm_distance(sep + ba_len, sect_len + sect_ba_len)
    IN  IF tokens_a = {} \/ tokens_b = {} THEN ScoreOf(0, 1)
        ELSE IF intersect # {} /\ (diff_ab = {} \/ diff_ba = {})
             THEN ScoreOf(100, 1)
        ELSE IF sect_len = 0 THEN result
        ELSE score_max(result, score_max(sect_ab_ratio, sect_ba_ratio))

\* process.extractOne(query, choices, scorer=fuzz.token_set_ratio) for a
\* non-empty choices list: the first choice with the highest score
RECURSIVE extract_from(_, _, _, _)
extract_from(query, choices, i, best) ==
    IF i > Len(choices) THEN best
    ELSE LET score == token_set_ratio(query, choices[i])
         IN  extract_from(query, choices, i + 1,
                          IF score_lt(best.score, score)
                          THEN [name |-> choices[i], score |-> score]
                          ELSE best)

extractOne(query, choices) ==
    extract_from(query, choices, 2,
                 [name |-> choices[1],
                  score |-> token_set_ratio(query, choices[1])])

(***************************************************************************)
(* main(): the pieces of one rerun                                         *)
(***************************************************************************)
Rows(d) == 1..Len(d)

\* to_date_str: "" for NaT, else the date formatted dd-mm-YYYY, kept as
\* <<dd, mm, YYYY>>
to_date_str(val) == IF val = <<>> THEN <<>> ELSE <<val[3], val[2], val[1]>>

\* datetime.strptime(date_str, "%d-%m-%Y").strftime("%d")
day_of(date_str) == IF date_str # <<>> THEN <<date_str[1]>> ELSE <<>>

\* df["NARRITION"].astype(str).str.strip().str.upper()
count_key(row) == str_upper(str_strip(row.NARRITION))

\* value_counts() entry of one key
counts(d, k) == Cardinality({i \in Rows(d) : count_key(d[i]) = k})


\* variant: every counted narration is offered for replacement
repeated_any_count(d) ==
    {k \in {count_key(d[i]) : i \in Rows(d)} : counts(d, k) > 0}

\* counts[counts > 1].index
repeated(d) == {k \in {count_key(d[i]) : i \in Rows(d)} : counts(d, k) > 1}

\* rows selected by df["NARRITION"].astype(str).str.upper() == item
upper_mask(d, item) == {i \in Rows(d) : str_upper(d[i].NARRITION) = item}

\* .iloc[0] on an empty selection raises IndexError and ends the rerun
sample_missing(d) == \E item \in repeated(d) : upper_mask(d, item) = {}

\* the text inputs that the loop over repeated can render
rendered(d) == {item \in repeated(d) : upper_mask(d, item) # {}}

\* narration_map built from the text inputs
narration_map(d, inp) ==
    [item \in {k \in repeated(d) : str_strip(inp[k]) # <<>>}
        |-> str_strip(inp[item])]

\* ledger_list from the first column of the ledger master
RECURSIVE load_ledger(_)
load_ledger(col) ==
    IF col = <<>> THEN <<>>
    ELSE LET x == str_strip(Head(col))
         IN  (IF x # <<>> THEN <<x>> ELSE <<>>) \o load_ledger(Tail(col))

\* 1) manual repeated replacements, on a column that starts out empty
apply_overrides(d, nmap) ==
    [i \in Rows(d) |->
        IF str_upper(d[i].NARRITION) \in DOMAIN nmap
        THEN nmap[str_upper(d[i].NARRITION)]
        ELSE <<>>]


\* variant: the small-charge step only fills rows that are still empty
apply_charges_keep(d, col) ==
    [i \in Rows(d) |->
        IF d[i].DEBIT <= SMALL_CHARGE_THRESHOLD /\ col[i] = <<>>
        THEN BANK_CHARGES ELSE col[i]]

\* 2) Debit <= 58 => BANK CHARGES (overwrite or set)
apply_charges(d, col) ==
    [i \in Rows(d) |->
        IF d[i].DEBIT <= SMALL_CHARGE_THRESHOLD THEN BANK_CHARGES ELSE col[i]]


\* variant: the score is compared with the threshold the wrong way round
fuzzy_match_flipped(text, ledgers, thresh) ==
    IF str_strip(text) = <<>> THEN <<>>
    ELSE LET best == extractOne(text, ledgers)
         IN  IF best.score.num <= thresh * best.score.den THEN best.name
             ELSE <<>>

\* the ledger one row gets from step 3, <<>> when it stays unmatched
fuzzy_match(text, ledgers, thresh) ==
    IF str_strip(text) = <<>> THEN <<>>
    ELSE LET best == extractOne(text, ledgers)
         IN  IF score_ge(best.score, thresh) THEN best.name ELSE <<>>

\* 3) fuzzy match the rows whose MAPPED_LEDGER is still empty
apply_fuzzy(d, col, ledgers, thresh) ==
    IF ledgers = <<>> THEN col
    ELSE [i \in Rows(d) |->
            IF col[i] = <<>> THEN fuzzy_match(d[i].NARRITION, ledgers, thresh)
            ELSE col[i]]

\* the MAPPED_LEDGER column after steps 1) to 3)
mapped_ledger(d, inp, ledgers, thresh) ==
    apply_fuzzy(d, apply_charges(d, apply_overrides(d, narration_map(d, inp))),
                ledgers, thresh)


\* variant: the larger of the two columns
amount_larger(debit, credit) == IF debit > credit THEN debit ELSE credit

amount_of(debit, credit) == IF debit > 0 THEN debit ELSE credit


\* variant: the tie-break uses a strict comparison
voucher_type_strict(debit, credit) ==
    IF debit > 0 /\ credit = 0 THEN "PAYMENT"
    ELSE IF credit > 0 /\ debit = 0 THEN "RECEIPT"
    ELSE IF debit > credit THEN "PAYMENT" ELSE "RECEIPT"

voucher_type_of(debit, credit) ==
    IF debit > 0 /\ credit = 0 THEN "PAYMENT"
    ELSE IF credit > 0 /\ debit = 0 THEN "RECEIPT"
    ELSE IF debit >= credit THEN "PAYMENT" ELSE "RECEIPT"


\* variant: the ledger's side is copied without the SUSPENSE placeholder
ledger_side_raw(mapped) == mapped

\* the ledger's side of the entry
ledger_side(mapped) == IF mapped # <<>> THEN mapped ELSE SUSPENSE

\* the bank's side of a RECEIPT: by_dr stays "" without a bank name
bank_side_receipt(bank) ==
    IF str_strip(bank) # <<>> THEN str_strip(bank) ELSE <<>>

\* the bank's side of a PAYMENT
bank_side_payment(bank) ==
    IF str_strip(bank) # <<>> THEN str_strip(bank) ELSE SUSPENSE

\* 4) one Tally-style row
out_row(row, mapped, bank) ==
    LET date_str == to_date_str(row.DATE)
        voucher_type == voucher_type_of(row.DEBIT, row.CREDIT)
    IN  [DATE |-> date_str,
         VOUCHER_NO |-> <<>>,
         BY_DR |-> IF voucher_type = "RECEIPT" THEN bank_side_receipt(bank)
                   ELSE ledger_side(mapped),
         TO_CR |-> IF voucher_type = "RECEIPT" THEN ledger_side(mapped)
                   ELSE bank_side_payment(bank),
         AMOUNT |-> amount_of(row.DEBIT, row.CREDIT),
         NARRATION |-> row.NARRITION,
         VOUCHER_TYPE |-> voucher_type,
         DAY |-> day_of(date_str)]

\* where a rerun without a button click stops
idle_run(d) == IF sample_missing(d) THEN "index_error" ELSE "awaiting_button"

(***************************************************************************)
(* Initial state and the user's interactions                               *)
(***************************************************************************)
Init ==
    /\ run = "no_file"
    /\ df = <<>>
    /\ user_inp = <<>>
    /\ ledger_list = <<>>
    /\ fuzzy_thresh = SliderDefault
    /\ give_bank_name = <<>>
    /\ step1 = <<>>
    /\ working = <<>>
    /\ out_rows = <<>>

NoOutput == step1' = <<>> /\ working' = <<>> /\ out_rows' = <<>>

\* rerun with the widget state unchanged except for what the caller primes
Rerun == run' = IF run \in {"no_file", "missing_column"} THEN run
                ELSE idle_run(df)

\* a statement with the four required columns is uploaded
UploadBank ==
    /\ run = "no_file"
    /\ \E d \in Batches :
        /\ df' = d
        /\ run' = idle_run(d)
        /\ user_inp' = [item \in repeated(d) |-> <<>>]
    /\ NoOutput
    /\ UNCHANGED <<ledger_list, fuzzy_thresh, give_bank_name>>

\* a statement that lacks one of DATE, NARRITION, DEBIT, CREDIT is uploaded
UploadBankMissingColumn ==
    /\ run = "no_file"
    /\ run' = "missing_column"
    /\ UNCHANGED <<df, user_inp, ledger_list, fuzzy_thresh, give_bank_name>>
    /\ NoOutput

\* the uploaded statement is removed from the file uploader
RemoveBank ==
    /\ run # "no_file"
    /\ run' = "no_file"
    /\ df' = <<>>
    /\ user_inp' = <<>>
    /\ NoOutput
    /\ UNCHANGED <<ledger_list, fuzzy_thresh, give_bank_name>>

UploadLedger ==
    \E col \in LedgerFiles :
        /\ ledger_list' = load_ledger(col)
        /\ Rerun
        /\ NoOutput
        /\ UNCHANGED <<df, user_inp, fuzzy_thresh, give_bank_name>>

RemoveLedger ==
    /\ ledger_list' = <<>>
    /\ Rerun
    /\ NoOutput
    /\ UNCHANGED <<df, user_inp, fuzzy_thresh, give_bank_name>>

MoveSlider ==
    \E t \in ThreshVals :
        /\ fuzzy_thresh' = t
        /\ Rerun
        /\ NoOutput
        /\ UNCHANGED <<df, user_inp, ledger_list, give_bank_name>>

TypeBankName ==
    \E b \in BankNameTexts :
        /\ give_bank_name' = b
        /\ Rerun
        /\ NoOutput
        /\ UNCHANGED <<df, user_inp, ledger_list, fuzzy_thresh>>

TypeReplacement ==
    /\ run \in {"index_error", "awaiting_button", "mapped"}
    /\ \E item \in rendered(df), txt \in ReplacementTexts :
        user_inp' = [user_inp EXCEPT ![item] = txt]
    /\ Rerun
    /\ NoOutput
    /\ UNCHANGED <<df, ledger_list, fuzzy_thresh, give_bank_name>>

\* the button is clicked: steps 1) to 4) run to the end
ApplyMapping ==
    /\ run \in {"awaiting_button", "mapped"}
    /\ step1' = apply_overrides(df, narration_map(df, user_inp))
    /\ working' = mapped_ledger(df, user_inp, ledger_list, fuzzy_thresh)
    /\ out_rows' = [i \in Rows(df) |->
                       out_row(df[i], working'[i], give_bank_name)]
    /\ run' = "mapped"
    /\ UNCHANGED <<df, user_inp, ledger_list, fuzzy_thresh, give_bank_name>>

Next ==
    \/ UploadBank
    \/ UploadBankMissingColumn
    \/ RemoveBank
    \/ UploadLedger
    \/ RemoveLedger
    \/ MoveSlider
    \/ TypeBankName
    \/ TypeReplacement
    \/ ApplyMapping

Spec == Init /\ [][Next]_vars

(***************************************************************************)
(* Properties                                                              *)
(***************************************************************************)
Mapped == run = "mapped"

IsReceipt(i) == out_rows[i].VOUCHER_TYPE = "RECEIPT"

\* the column of out_rows[i] that carries the ledger
LedgerSideOf(i) == IF IsReceipt(i) THEN out_rows[i].TO_CR ELSE out_rows[i].BY_DR

\* the column of out_rows[i] that carries the bank
BankSideOf(i) == IF IsReceipt(i) THEN out_rows[i].BY_DR ELSE out_rows[i].TO_CR

C2_SmallChargeWins ==
    Mapped =>
        \A i \in Rows(df) :
            df[i].DEBIT <= 58 => working[i] = BANK_CHARGES

C2_Witness ==
    /\ Mapped
    /\ ledger_list # <<>>
    /\ \E i \in Rows(df) :
           /\ df[i].DEBIT <= 58
           /\ step1[i] # <<>>
           /\ step1[i] # BANK_CHARGES
           /\ working[i] = BANK_CHARGES

\* C3: a receipt row with debit = 0 and credit > 0 and no override has
\* to_cr equal to the best-matching ledger name when that name scores at
\* least the threshold, and "SUSPENSE" otherwise.
C3_ReceiptCreditSide ==
    Mapped =>
        \A i \in Rows(df) :
            (/\ df[i].DEBIT = 0
             /\ df[i].CREDIT > 0
             /\ count_key(df[i]) \notin DOMAIN narration_map(df, user_inp))
            => out_rows[i].TO_CR =
                   IF /\ ledger_list # <<>>
                      /\ score_ge(extractOne(df[i].NARRITION, ledger_list).score,
                                  fuzzy_thresh)
                   THEN extractOne(df[i].NARRITION, ledger_list).name
                   ELSE SUSPENSE

\* C4: for every override key k with label L, every row with debit > 58
\* whose trimmed, upper-cased narration equals k ends with the ledger L.
C4_OverrideReachesAllCounted ==
    Mapped =>
        LET nmap == narration_map(df, user_inp)
        IN  \A k \in DOMAIN nmap :
                \A i \in Rows(df) :
                    (df[i].DEBIT > 58 /\ str_upper(str_strip(df[i].NARRITION)) = k)
                        => working[i] = nmap[k]

\* C5: a row whose trimmed, upper-cased narration occurs once in the batch
\* gets nothing from the override step; every override key occurs more than
\* once, and every row the override step selects for a key is one of the
\* rows counted for that key.
C5_SingletonNeverOverridden ==
    Mapped =>
        LET nmap == narration_map(df, user_inp)
            occurrences(k) ==
                {i \in Rows(df) : str_upper(str_strip(df[i].NARRITION)) = k}
        IN  /\ \A i \in Rows(df) :
                   Cardinality(occurrences(str_upper(str_strip(df[i].NARRITION)))) = 1
                       => step1[i] = <<>>
            /\ \A k \in DOMAIN nmap : Cardinality(occurrences(k)) > 1
            /\ \A i \in Rows(df) :
                   step1[i] # <<>> =>
                       \E k \in DOMAIN nmap :
                           i \in occurrences(k) /\ step1[i] = nmap[k]

C5_Witness ==
    /\ Mapped
    /\ \E i, j \in Rows(df) :
           /\ Cardinality({r \in Rows(df) :
                  str_upper(str_strip(df[r].NARRITION))
                      = str_upper(str_strip(df[i].NARRITION))}) = 1
           /\ step1[i] = <<>>
           /\ step1[j] # <<>>

\* C6: approximate matching never assigns a ledger that scores below the
\* threshold in force, and between two runs that differ only in the
\* threshold, the rows resolved under the higher threshold are among the
\* rows resolved under the lower one.
C6_ThresholdRespectedAndMonotone ==
    Mapped =>
        LET resolved(t) ==
                {i \in Rows(df) :
                    mapped_ledger(df, user_inp, ledger_list, t)[i] # <<>>}
            resolved_now == {i \in Rows(df) : working[i] # <<>>}
        IN  /\ \A i \in Rows(df) :
                   (step1[i] = <<>> /\ df[i].DEBIT > 58 /\ working[i] # <<>>)
                       => /\ \E n \in Rows(ledger_list) :
                                 ledger_list[n] = working[i]
                          /\ score_ge(token_set_ratio(df[i].NARRITION,
                                                      working[i]),
                                      fuzzy_thresh)
            /\ \A t \in ThreshVals \cup {SliderMax} :
                   /\ t >= fuzzy_thresh => resolved(t) \subseteq resolved_now
                   /\ t <= fuzzy_thresh => resolved_now \subseteq resolved(t)

C6_Witness ==
    /\ Mapped
    /\ fuzzy_thresh > SliderMin
    /\ \E i, j \in Rows(df) :
           /\ step1[i] = <<>> /\ df[i].DEBIT > 58 /\ working[i] # <<>>
           /\ working[j] = <<>>
           /\ mapped_ledger(df, user_inp, ledger_list, SliderMin)[j] # <<>>

\* C7: without a bank label (absent, or empty once trimmed) the bank's side
\* of the entry is "BANK" (by_dr for RECEIPT, to_cr for PAYMENT); with a
\* bank label it is the trimmed label.
C7_BankSideFallback ==
    Mapped =>
        \A i \in Rows(df) :
            BankSideOf(i) =
                IF str_strip(give_bank_name) = <<>>
                THEN <<"B", "A", "N", "K">>
                ELSE str_strip(give_bank_name)

\* C8: the ledger's side of every output row (to_cr for RECEIPT, by_dr for
\* PAYMENT) is never empty: it is the resolved ledger when there is one and
\* "SUSPENSE" when there is none, also with an empty ledger list.
C8_LedgerSideNeverEmpty ==
    Mapped =>
        \A i \in Rows(df) :
            /\ LedgerSideOf(i) # <<>>
            /\ working[i] # <<>> => LedgerSideOf(i) = working[i]
            /\ working[i] = <<>> => LedgerSideOf(i) = SUSPENSE

C8_Witness ==
    /\ Mapped
    /\ ledger_list = <<>>
    /\ \E i, j \in Rows(df) :
           /\ working[i] = <<>> /\ LedgerSideOf(i) = SUSPENSE
           /\ IsReceipt(j) /\ working[j] # <<>> /\ LedgerSideOf(j) = working[j]

\* C9 as stated: for non-negative debit and credit the output amount is the
\* maximum of debit and credit, rows with both positive included.
C9_AmountIsMax ==
    Mapped =>
        \A i \in Rows(df) :
            (df[i].DEBIT >= 0 /\ df[i].CREDIT >= 0)
                => out_rows[i].AMOUNT = Max2(df[i].DEBIT, df[i].CREDIT)

\* C9 amended: for non-negative debit and credit the output amount is the
\* debit when the debit is positive and the credit otherwise; that is the
\* maximum of the two unless 0 < debit < credit, where it is the debit.
C9_AmountIsDebitElseCredit ==
    Mapped =>
        \A i \in Rows(df) :
            LET d == df[i].DEBIT
                c == df[i].CREDIT
                a == out_rows[i].AMOUNT
            IN  (d >= 0 /\ c >= 0) =>
                    /\ (d = 0 \/ d >= c) => a = Max2(d, c)
                    /\ (0 < d /\ d < c) => a = d
                    /\ (d = 0 /\ c = 0) => a = 0

C9_Witness ==
    /\ Mapped
    /\ \E i \in Rows(df) :
           /\ 0 < df[i].DEBIT /\ df[i].DEBIT < df[i].CREDIT
           /\ out_rows[i].AMOUNT = df[i].DEBIT
    /\ \E i \in Rows(df) :
           /\ df[i].DEBIT = 0 /\ df[i].CREDIT > 0
           /\ out_rows[i].AMOUNT = df[i].CREDIT

\* C10: once a statement with the four required columns is uploaded, no row
\* content ends the run early: the overrides are collected, and a generated
\* output has one row per input row, in input order, with the same narration.
C10_NeverAbortedByRows ==
    run \notin {"no_file", "missing_column"} =>
        /\ run # "index_error"
        /\ Mapped =>
               /\ Len(out_rows) = Len(df)
               /\ \A i \in Rows(df) : out_rows[i].NARRATION = df[i].NARRITION

====
